---- MODULE Spec2Model ----
(***************************************************************************)
(* A model of the simulation core of src/game.js (Ashlee Bird): the game   *)
(* phase machine, the delta-time physics, pipe spawning / scrolling /      *)
(* removal, scoring, the high score and its localStorage copy, and the     *)
(* requestAnimationFrame loop that drives update().                        *)
(*                                                                         *)
(* Numbers.  Lengths and velocities are JavaScript doubles; the model      *)
(* keeps them as integers in hundredths (a pixel is 100, GRAVITY 0.55 is   *)
(* 55).  Times are in thirds of a millisecond, so that FRAME_TIME =        *)
(* 1000/60 ms is the integer 50.  The elapsed times the model draws are    *)
(* whole multiples of FRAME_TIME, for which every product below is exact.  *)
(* NaN is a value of its own: arithmetic on it gives NaN and every         *)
(* comparison with it is false, as in JavaScript.                          *)
(***************************************************************************)
EXTENDS Integers, Sequences, FiniteSets, TLC

VARIABLES
    canvas,          \* [width, height]
    groundY,
    gameState,       \* "splash", "start", "playing", "gameover"
    bird,            \* [x, y, velocity, rotation]
    pipes,           \* sequence of [x, topHeight, passed, id]; id is history
    score,
    highScore,       \* a JavaScript value: a string read from the store, or a number
    isNewHighScore,
    localStorage,    \* the item 'flappyHighScore': [present, str]
    lastTime,        \* "undefined" or "number"
    rafPending,      \* gameLoop is registered with requestAnimationFrame
    \* history variables (no handler reads them)
    setCalls,        \* the values passed to localStorage.setItem by the last update
    spawned,         \* pipes spawned in this round
    removedPassed,   \* pipes of this round removed from the list with passed = true
    \* two birds under update's physics alone, for comparing tick sequences (PhysSpec)
    trial            \* [a, b: a bird; ta, tb: the elapsed time each has been given]

vars == <<canvas, groundY, gameState, bird, pipes, score, highScore, isNewHighScore,
          localStorage, lastTime, rafPending, setCalls, spawned, removedPassed, trial>>

----------------------------------------------------------------------------
(* Units *)

Px(n) == n * 100
Ms(n) == n * 3

(* Bounds of the model *)

\* update() is not run once the round's score has reached MaxScore
MaxScore == 2

\* the elapsed time, in thirds of a millisecond, given to each bird of a trial
MaxElapsed == 600

\* frames of the desktop game stop when the score reaches MaxDesktopScore
MaxDesktopScore == 3

----------------------------------------------------------------------------
(* Game constants, src/game.js lines 2-11 *)

TARGET_FPS == 60
FRAME_TIME == Ms(1000) \div TARGET_FPS
GRAVITY == 55
FLAP_STRENGTH == 0 - 750
MAX_FALL_SPEED == 1000
PIPE_SPEED == 320
PIPE_GAP == 12500
PIPE_WIDTH == 8000
PIPE_SPACING == 20000
BIRD_SIZE == 4000

----------------------------------------------------------------------------
(* JavaScript numbers *)

NaN == 0 - 1000000000

IsNaN(a) == a = NaN

Add(a, b) == IF IsNaN(a) \/ IsNaN(b) THEN NaN ELSE a + b

Sub(a, b) == IF IsNaN(a) \/ IsNaN(b) THEN NaN ELSE a - b

Lt(a, b) == ~IsNaN(a) /\ ~IsNaN(b) /\ a < b

Gt(a, b) == ~IsNaN(a) /\ ~IsNaN(b) /\ a > b

MathMin(a, b) == IF IsNaN(a) \/ IsNaN(b) THEN NaN ELSE IF a < b THEN a ELSE b

MathMax(a, b) == IF IsNaN(a) \/ IsNaN(b) THEN NaN ELSE IF a > b THEN a ELSE b

\* a * dt, where dt = t / FRAME_TIME and t is the clamped elapsed time
TimesDt(a, t) == IF IsNaN(a) \/ IsNaN(t) THEN NaN ELSE (a * t) \div FRAME_TIME

----------------------------------------------------------------------------
(* JavaScript strings and the conversions between strings and numbers *)

Digits == <<"0", "1", "2", "3", "4", "5", "6", "7", "8", "9">>

IsDigit(c) == \E i \in 1..10 : Digits[i] = c

DigitValue(c) == (CHOOSE i \in 1..10 : Digits[i] = c) - 1

RECURSIVE DigitsToNumber(_)
DigitsToNumber(s) ==
    IF s = <<>> THEN 0
    ELSE 10 * DigitsToNumber(SubSeq(s, 1, Len(s) - 1)) + DigitValue(s[Len(s)])

\* ToNumber of a string: "" is 0, a string of decimal digits is its value,
\* any other string of the model's alphabet is NaN
StringToNumber(s) ==
    IF \A i \in 1..Len(s) : IsDigit(s[i]) THEN DigitsToNumber(s) ELSE NaN

RECURSIVE NumberToString(_)
NumberToString(n) ==
    IF n < 10 THEN <<Digits[n + 1]>>
    ELSE NumberToString(n \div 10) \o <<Digits[(n % 10) + 1]>>

JsNumber(n) == [isString |-> FALSE, num |-> n, str |-> <<>>]

JsString(s) == [isString |-> TRUE, num |-> 0, str |-> s]

ToNumber(v) == IF v.isString THEN StringToNumber(v.str) ELSE v.num

\* score > highScore, the abstract relational comparison of a number with a value
JsGreater(n, v) == Gt(n, ToNumber(v))

----------------------------------------------------------------------------
(* The persistent store *)

NoItem == [present |-> FALSE, str |-> <<>>]

Item(s) == [present |-> TRUE, str |-> s]

\* localStorage.getItem('flappyHighScore') || 0
GetItemOrZero(store) ==
    IF store.present /\ store.str # <<>> THEN JsString(store.str) ELSE JsNumber(0)

\* localStorage.setItem('flappyHighScore', n) when it does not throw
SetItem(n) == Item(NumberToString(n))

----------------------------------------------------------------------------
(* Inputs *)

\* window.innerWidth x window.innerHeight
Sizes == { [width |-> Px(400), height |-> Px(400)],
           [width |-> Px(400), height |-> Px(328)] }

\* what the store holds when the page loads
InitialItems == { NoItem, Item(<<"1">>), Item(<<"a", "b", "c">>) }

\* the difference of two successive frame timestamps: 0, 100 ms, 250 ms
Deltas == { 0, Ms(100), Ms(250) }

\* Math.random(), in halves: 0 and 0.5
Randoms == { 0, 1 }

TimesRandom(a, r) == (a * r) \div 2

----------------------------------------------------------------------------
(* resizeCanvas, resetGame *)

GroundY(size) == size.height - Px(80)

NewBird(size) ==
    [ x |-> (size.width * 20) \div 100,
      y |-> size.height \div 2,
      velocity |-> 0,
      rotation |-> 0 ]

\* resetGame without the line score = 0
resetGame_KeepsScore(size) ==
    [ bird |-> NewBird(size), pipes |-> <<>>, score |-> score, isNewHighScore |-> FALSE ]

\* resetGame without the line isNewHighScore = false
resetGame_KeepsFlag(size) ==
    [ bird |-> NewBird(size), pipes |-> <<>>, score |-> 0,
      isNewHighScore |-> isNewHighScore ]

\* the program state resetGame assigns: bird, pipes, score, isNewHighScore
resetGame(size) ==
    [ bird |-> NewBird(size), pipes |-> <<>>, score |-> 0, isNewHighScore |-> FALSE ]

\* the bird both runs of a physics trial start from: resetGame's, on a 400 x 400 canvas
TrialBird == NewBird([width |-> Px(400), height |-> Px(400)])

----------------------------------------------------------------------------
(* spawnPipe, spawnFirstPipe *)

TopHeight(gY, r) ==
    LET minHeight == Px(80)
        maxHeight == gY - PIPE_GAP - minHeight
    IN  TimesRandom(maxHeight - minHeight, r) + minHeight

spawnPipe(size, gY, r, id) ==
    [ x |-> size.width, topHeight |-> TopHeight(gY, r), passed |-> FALSE, id |-> id ]

\* spawnFirstPipe placing the pipe at the right edge, as spawnPipe does
spawnFirstPipe_AtEdge(size, gY, r, id) ==
    [ x |-> size.width, topHeight |-> TopHeight(gY, r), passed |-> FALSE, id |-> id ]

spawnFirstPipe(size, gY, r, id) ==
    [ x |-> (size.width * 65) \div 100, topHeight |-> TopHeight(gY, r),
      passed |-> FALSE, id |-> id ]

----------------------------------------------------------------------------
(* update: the physics of the bird *)

\* Math.min(deltaTime, 100); dt is this over FRAME_TIME
ClampDelta(deltaTime) == MathMin(deltaTime, Ms(100))

\* lines 141-148 without the clamp to MAX_FALL_SPEED
Physics_NoClamp(b, t) ==
    LET v1 == Add(b.velocity, TimesDt(GRAVITY, t))
        y2 == Add(b.y, TimesDt(v1, t))
        rot == MathMin(MathMax(IF IsNaN(v1) THEN NaN ELSE v1 * 4, 0 - Px(25)), Px(90))
    IN  [b EXCEPT !.velocity = v1, !.y = y2, !.rotation = rot]

Physics(b, t) ==
    LET v1 == Add(b.velocity, TimesDt(GRAVITY, t))
        v2 == IF Gt(v1, MAX_FALL_SPEED) THEN MAX_FALL_SPEED ELSE v1
        y2 == Add(b.y, TimesDt(v2, t))
        rot == MathMin(MathMax(IF IsNaN(v2) THEN NaN ELSE v2 * 4, 0 - Px(25)), Px(90))
    IN  [b EXCEPT !.velocity = v2, !.y = y2, !.rotation = rot]

----------------------------------------------------------------------------
(* update: the loop over the pipes, from the last index to the first.      *)
(* st = [pipes, score, highScore, isNewHighScore, localStorage, setCalls,  *)
(* thrown, removedPassed]; a setItem that throws ends update at once.      *)

RemoveAt(s, i) == SubSeq(s, 1, i - 1) \o SubSeq(s, i + 1, Len(s))

\* lines 165-172 without the test score > highScore
RecordHighScore_Always(st, setOk) ==
    [st EXCEPT !.isNewHighScore = TRUE,
               !.highScore = JsNumber(st.score),
               !.setCalls = Append(st.setCalls, st.score),
               !.localStorage = IF setOk THEN SetItem(st.score) ELSE @,
               !.thrown = ~setOk]

\* lines 165-172 with score >= highScore for score > highScore
RecordHighScore_OnEqual(st, setOk) ==
    IF ~Lt(st.score, ToNumber(st.highScore)) /\ ~IsNaN(ToNumber(st.highScore))
    THEN [st EXCEPT !.isNewHighScore = TRUE,
                    !.highScore = JsNumber(st.score),
                    !.setCalls = Append(st.setCalls, st.score),
                    !.localStorage = IF setOk THEN SetItem(st.score) ELSE @,
                    !.thrown = ~setOk]
    ELSE st

\* lines 165-172 with setItem moved into the block of if (!isNewHighScore)
RecordHighScore_StoresOnce(st, setOk) ==
    IF JsGreater(st.score, st.highScore)
    THEN IF st.isNewHighScore
         THEN [st EXCEPT !.highScore = JsNumber(st.score)]
         ELSE [st EXCEPT !.isNewHighScore = TRUE,
                         !.highScore = JsNumber(st.score),
                         !.setCalls = Append(st.setCalls, st.score),
                         !.localStorage = IF setOk THEN SetItem(st.score) ELSE @,
                         !.thrown = ~setOk]
    ELSE st

\* lines 165-172, entered with the incremented score
RecordHighScore(st, setOk) ==
    IF JsGreater(st.score, st.highScore)
    THEN [st EXCEPT !.isNewHighScore = TRUE,
                    !.highScore = JsNumber(st.score),
                    !.setCalls = Append(st.setCalls, st.score),
                    !.localStorage = IF setOk THEN SetItem(st.score) ELSE @,
                    !.thrown = ~setOk]
    ELSE st

\* lines 161-162 without the line pipes[i].passed = true
MarkPassed_NoFlag(st, i) == [st EXCEPT !.score = @ + 1]

\* lines 161-162
MarkPassed(st, i) == [st EXCEPT !.pipes[i].passed = TRUE, !.score = @ + 1]

\* lines 157-178 for index i
PipeStep(st, i, t, birdX, setOk) ==
    LET x1 == Sub(st.pipes[i].x, TimesDt(PIPE_SPEED, t))
        scores == ~st.pipes[i].passed /\ Lt(Add(x1, PIPE_WIDTH), birdX)
        moved == [st EXCEPT !.pipes[i].x = x1]
        scored == IF scores THEN RecordHighScore(MarkPassed(moved, i), setOk) ELSE moved
    IN  IF scored.thrown THEN scored
        ELSE IF Lt(Add(x1, PIPE_WIDTH), 0)
        THEN [scored EXCEPT !.pipes = RemoveAt(@, i),
                            !.removedPassed = @ + (IF scored.pipes[i].passed THEN 1 ELSE 0)]
        ELSE scored

RECURSIVE PipeLoop(_, _, _, _, _)
PipeLoop(st, i, t, birdX, setOk) ==
    IF i = 0 \/ st.thrown THEN st
    ELSE PipeLoop(PipeStep(st, i, t, birdX, setOk), i - 1, t, birdX, setOk)

----------------------------------------------------------------------------
(* checkCollisions: TRUE when it calls gameOver *)

checkCollisions(b, ps, gY) ==
    LET half == BIRD_SIZE \div 2
        birdLeft == b.x - half + Px(5)
        birdRight == b.x + half - Px(5)
        birdTop == Add(Sub(b.y, half), Px(5))
        birdBottom == Sub(Add(b.y, half), Px(5))
    IN  \/ Gt(Add(b.y, half), gY)
        \/ Lt(Sub(b.y, half), 0)
        \/ \E i \in 1..Len(ps) :
              /\ Gt(birdRight, ps[i].x)
              /\ Lt(birdLeft, Add(ps[i].x, PIPE_WIDTH))
              /\ \/ Lt(birdTop, ps[i].topHeight)
                 \/ Gt(birdBottom, ps[i].topHeight + PIPE_GAP)

----------------------------------------------------------------------------
(* update: the condition of the steady-state spawn *)

\* pipes.length === 0 || pipes[pipes.length - 1].x < canvas.width - PIPE_SPACING
SpawnDue(ps, size) ==
    ps = <<>> \/ Lt(ps[Len(ps)].x, size.width - PIPE_SPACING)

----------------------------------------------------------------------------
(* update(deltaTime), as a function of the program state.  The result has  *)
(* the fields of st above plus gameState, bird and spawned.                *)

update(deltaTime, r1, r2, setOk) ==
    LET first == pipes = <<>>
        ps1 == IF first
               THEN <<spawnFirstPipe(canvas, groundY, r1, spawned + 1)>>
               ELSE pipes
        n1 == IF first THEN spawned + 1 ELSE spawned
        t == ClampDelta(deltaTime)
        b1 == Physics(bird, t)
        more == SpawnDue(ps1, canvas)
        ps2 == IF more THEN Append(ps1, spawnPipe(canvas, groundY, r2, n1 + 1)) ELSE ps1
        n2 == IF more THEN n1 + 1 ELSE n1
        st0 == [ pipes |-> ps2, score |-> score, highScore |-> highScore,
                 isNewHighScore |-> isNewHighScore, localStorage |-> localStorage,
                 setCalls |-> <<>>, thrown |-> FALSE, removedPassed |-> removedPassed ]
        st1 == PipeLoop(st0, Len(ps2), t, b1.x, setOk)
        over == ~st1.thrown /\ checkCollisions(b1, st1.pipes, groundY)
    IN  [ gameState |-> IF over THEN "gameover" ELSE "playing",
          bird |-> b1, spawned |-> n2,
          pipes |-> st1.pipes, score |-> st1.score, highScore |-> st1.highScore,
          isNewHighScore |-> st1.isNewHighScore, localStorage |-> st1.localStorage,
          setCalls |-> st1.setCalls, thrown |-> st1.thrown,
          removedPassed |-> st1.removedPassed ]

----------------------------------------------------------------------------
(* The state after the page has loaded: the declarations of lines 14-22,   *)
(* then init() has run resizeCanvas, resetGame (which finds pipes, score   *)
(* and isNewHighScore as declared and creates the bird) and the first,     *)
(* direct call gameLoop(), whose timestamp is undefined: it leaves         *)
(* lastTime undefined and registers the loop.                              *)

InitFrom(sizes) ==
    /\ canvas \in sizes
    /\ groundY = GroundY(canvas)
    /\ gameState = "splash"
    /\ bird = NewBird(canvas)
    /\ pipes = <<>>
    /\ score = 0
    /\ isNewHighScore = FALSE
    /\ localStorage \in InitialItems
    /\ highScore = GetItemOrZero(localStorage)
    /\ lastTime = "undefined"
    /\ rafPending = TRUE
    /\ setCalls = <<>>
    /\ spawned = 0
    /\ removedPassed = 0
    /\ trial = [a |-> TrialBird, b |-> TrialBird, ta |-> 0, tb |-> 0]

Init == InitFrom(Sizes)

----------------------------------------------------------------------------
(* Handlers *)

\* the window's resize event
ResizeCanvas(size) ==
    /\ canvas' = size
    /\ groundY' = GroundY(size)
    /\ UNCHANGED <<gameState, bird, pipes, score, highScore, isNewHighScore,
                   localStorage, lastTime, rafPending, setCalls, spawned, removedPassed,
                   trial>>

\* handleInput with the restart launching the round at once
NextPhase_RestartPlays(phase) ==
    CASE phase = "splash" -> "start"
      [] phase = "start" -> "playing"
      [] phase = "playing" -> "playing"
      [] phase = "gameover" -> "playing"

\* handleInput: the phase after a primary input
NextPhase(phase) ==
    CASE phase = "splash" -> "start"
      [] phase = "start" -> "playing"
      [] phase = "playing" -> "playing"
      [] phase = "gameover" -> "start"

\* handleInput with the flap added to the velocity
Flap_Adds(phase, b) ==
    IF phase \in {"start", "playing"}
    THEN [b EXCEPT !.velocity = Add(@, FLAP_STRENGTH)]
    ELSE b

\* handleInput: the bird after a primary input in a phase other than gameover
Flap(phase, b) ==
    IF phase \in {"start", "playing"} THEN [b EXCEPT !.velocity = FLAP_STRENGTH] ELSE b

\* click, touchstart, Space or ArrowUp
HandleInput ==
    /\ IF gameState = "gameover"
       THEN /\ bird' = resetGame(canvas).bird
            /\ pipes' = resetGame(canvas).pipes
            /\ score' = resetGame(canvas).score
            /\ isNewHighScore' = resetGame(canvas).isNewHighScore
            /\ spawned' = 0
            /\ removedPassed' = 0
       ELSE /\ bird' = Flap(gameState, bird)
            /\ UNCHANGED <<pipes, score, isNewHighScore, spawned, removedPassed>>
    /\ gameState' = NextPhase(gameState)
    /\ UNCHANGED <<canvas, groundY, highScore, localStorage, lastTime, rafPending,
                   setCalls, trial>>

\* update returning at once only in phase gameover
UpdateRuns_UnlessOver(phase) == phase # "gameover"

\* update goes past its first statement: the phase is playing
UpdateRuns(phase) == phase = "playing"

\* timestamp - lastTime, for a timestamp d after the previous one
Elapsed(d) == IF lastTime = "undefined" THEN NaN ELSE d

\* update would call spawnPipe: the list is empty or its last pipe is far enough in
SpawnsMore ==
    LET lastX == IF pipes = <<>> THEN (canvas.width * 65) \div 100 ELSE pipes[Len(pipes)].x
    IN  Lt(lastX, canvas.width - PIPE_SPACING)

\* the pipes update could flag passed: the unflagged ones and those it spawns
Unpassed ==
    Cardinality({i \in 1..Len(pipes) : ~pipes[i].passed})
        + (IF pipes = <<>> THEN 1 ELSE 0) + (IF SpawnsMore THEN 1 ELSE 0)

\* The inputs a frame does not read are fixed, so that each step is generated once:
\* the timestamp when update returns at once or lastTime is undefined, a random
\* number when its spawn does not happen, the outcome of setItem when no score
\* this frame can reach exceeds the high score.
ReadsInputs(d, r1, r2, setOk) ==
    /\ (~UpdateRuns(gameState) \/ lastTime = "undefined") => d = 0
    /\ (~UpdateRuns(gameState) \/ pipes # <<>>) => r1 = 0
    /\ (~UpdateRuns(gameState) \/ ~SpawnsMore) => r2 = 0
    /\ (~UpdateRuns(gameState) \/ ~JsGreater(score + Unpassed, highScore)) => setOk

\* one frame: gameLoop(timestamp) calls update(deltaTime) and registers itself
\* again, unless update threw; frames stop at the score maxScore
Frame(maxScore, d, r1, r2, setOk) ==
    /\ rafPending
    /\ score < maxScore
    /\ ReadsInputs(d, r1, r2, setOk)
    /\ lastTime' = "number"
    /\ UNCHANGED <<canvas, groundY, trial>>
    /\ IF ~UpdateRuns(gameState)
       THEN /\ setCalls' = <<>>
            /\ UNCHANGED <<gameState, bird, pipes, score, highScore, isNewHighScore,
                           localStorage, rafPending, spawned, removedPassed>>
       ELSE \E u \in {update(Elapsed(d), r1, r2, setOk)} :
                /\ gameState' = u.gameState
                /\ bird' = u.bird
                /\ pipes' = u.pipes
                /\ score' = u.score
                /\ highScore' = u.highScore
                /\ isNewHighScore' = u.isNewHighScore
                /\ localStorage' = u.localStorage
                /\ setCalls' = u.setCalls
                /\ spawned' = u.spawned
                /\ removedPassed' = u.removedPassed
                /\ rafPending' = ~u.thrown

GameLoop(d, r1, r2, setOk) == Frame(MaxScore, d, r1, r2, setOk)

Next ==
    \/ \E size \in Sizes : ResizeCanvas(size)
    \/ HandleInput
    \/ \E d \in Deltas, r1 \in Randoms, r2 \in Randoms, setOk \in BOOLEAN :
          GameLoop(d, r1, r2, setOk)

Spec == Init /\ [][Next]_vars

----------------------------------------------------------------------------
(* Physics trials: lines 138-145 of update applied to two birds that start *)
(* as resetGame leaves the bird, each given its own sequence of elapsed    *)
(* times; no input, no pipes, no collision check.                          *)

\* one, two, six and twelve frames: 16.7 ms, 33.3 ms, 100 ms, 200 ms
TrialDeltas == { FRAME_TIME, 2 * FRAME_TIME, Ms(100), Ms(200) }

TickA(d) ==
    /\ trial.ta + d <= MaxElapsed
    /\ trial' = [trial EXCEPT !.a = Physics(@, ClampDelta(d)), !.ta = @ + d]
    /\ UNCHANGED <<canvas, groundY, gameState, bird, pipes, score, highScore,
                   isNewHighScore, localStorage, lastTime, rafPending, setCalls,
                   spawned, removedPassed>>

TickB(d) ==
    /\ trial.tb + d <= MaxElapsed
    /\ trial' = [trial EXCEPT !.b = Physics(@, ClampDelta(d)), !.tb = @ + d]
    /\ UNCHANGED <<canvas, groundY, gameState, bird, pipes, score, highScore,
                   isNewHighScore, localStorage, lastTime, rafPending, setCalls,
                   spawned, removedPassed>>

PhysNext ==
    \/ \E d \in TrialDeltas : TickA(d)
    \/ \E d \in TrialDeltas : TickB(d)

PhysSpec == Init /\ [][PhysNext]_vars

----------------------------------------------------------------------------
(* The game on a window that is never resized, narrow (0.65 * width is not *)
(* left of width - PIPE_SPACING, so the first update spawns one pipe) or   *)
(* wide (it is, so the first update spawns two).                           *)

WideSizes == { [width |-> Px(600), height |-> Px(400)] }

FixedSizeInit == InitFrom(Sizes \cup WideSizes)

FixedSizeNext ==
    \/ HandleInput
    \/ \E d \in Deltas, r1 \in Randoms, r2 \in Randoms, setOk \in BOOLEAN :
          GameLoop(d, r1, r2, setOk)

FixedSizeSpec == FixedSizeInit /\ [][FixedSizeNext]_vars

----------------------------------------------------------------------------
(* The game on a desktop window, never resized, where the bird's x is more *)
(* than one pipe distance from the left edge, so that a pipe is flagged as *)
(* passed while the pipe before it is still listed.  Math.random() returns *)
(* 0 throughout, and rounds go on to the third pipe.                       *)

DesktopSizes == { [width |-> Px(1200), height |-> Px(400)] }

DesktopInit == InitFrom(DesktopSizes)

DesktopNext ==
    \/ HandleInput
    \/ \E d \in Deltas, setOk \in BOOLEAN : Frame(MaxDesktopScore, d, 0, 0, setOk)

DesktopSpec == DesktopInit /\ [][DesktopNext]_vars

----------------------------------------------------------------------------
(* Steps, by the handler that takes them *)

InputStep == HandleInput

UpdateStep ==
    \E d \in Deltas, r1 \in Randoms, r2 \in Randoms, setOk \in BOOLEAN :
        GameLoop(d, r1, r2, setOk)

ResizeStep == \E size \in Sizes : ResizeCanvas(size)

----------------------------------------------------------------------------
(* C1: the phase starts as Splash and changes only along Splash->Ready,    *)
(* Ready->Active and Ended->Ready, each on a primary input, and            *)
(* Active->Ended, in an update; a primary input in Active leaves the phase *)
(* Active, an update changes the phase in no other way, a resize never.    *)

PhaseChanges ==
    { <<"splash", "start">>, <<"start", "playing">>,
      <<"playing", "gameover">>, <<"gameover", "start">> }

C1_PhaseStep ==
    /\ gameState' # gameState => <<gameState, gameState'>> \in PhaseChanges
    /\ InputStep =>
          /\ gameState = "splash" => gameState' = "start"
          /\ gameState = "start" => gameState' = "playing"
          /\ gameState = "playing" => gameState' = "playing"
          /\ gameState = "gameover" => gameState' = "start"
    /\ ResizeStep => gameState' = gameState
    /\ <<gameState, gameState'>> = <<"playing", "gameover">> => UpdateStep /\ ~InputStep
    /\ (gameState' # gameState /\ <<gameState, gameState'>> # <<"playing", "gameover">>)
          => InputStep /\ ~UpdateStep

\* C1: the phase is Splash at first and every step is a legal phase step
C1_PhaseMachine == (gameState = "splash") /\ [][C1_PhaseStep]_vars

\* a second round is being played: the high score of an earlier round stands
\* while the score is back at 0 and the phase is Active again
C1_Witness ==
    /\ gameState = "playing"
    /\ score = 0
    /\ pipes # <<>>
    /\ highScore = JsNumber(1)

----------------------------------------------------------------------------
(* C2: a primary input in Ended resets the round: the phase becomes Ready, *)
(* the bird is at its initial position (a fifth of the width, half the     *)
(* height) with velocity 0, the pipe list is empty, the score is 0 and the *)
(* new-high-score flag false; the high score and the store are unchanged.  *)

C2_RestartStep ==
    (gameState = "gameover" /\ InputStep) =>
        /\ gameState' = "start"
        /\ bird'.x = (canvas.width * 20) \div 100
        /\ bird'.y = canvas.height \div 2
        /\ bird'.velocity = 0
        /\ pipes' = <<>>
        /\ score' = 0
        /\ isNewHighScore' = FALSE
        /\ highScore' = highScore
        /\ localStorage' = localStorage

\* C2: every primary input in Ended is a full reset that keeps the high score
C2_RestartResets == [][C2_RestartStep]_vars

\* Ready after a round that scored: the high score it set is kept, the rest is reset
C2_Witness ==
    /\ gameState = "start"
    /\ highScore = JsNumber(2)
    /\ localStorage = Item(<<"2">>)
    /\ score = 0
    /\ pipes = <<>>

----------------------------------------------------------------------------
(* C3: the score of a round is the number of its pipes flagged passed,     *)
(* listed or already removed; a pipe is flagged exactly when its right     *)
(* edge is left of the bird's x (its x being a number); and a flag, once   *)
(* true, stays true while the pipe is listed.                              *)

PassedCount == Cardinality({i \in 1..Len(pipes) : pipes[i].passed})

C3_ScoreIsPassed ==
    /\ score = removedPassed + PassedCount
    /\ \A i \in 1..Len(pipes) :
          /\ Lt(Add(pipes[i].x, PIPE_WIDTH), bird.x) => pipes[i].passed
          /\ pipes[i].passed => IsNaN(pipes[i].x) \/ Lt(Add(pipes[i].x, PIPE_WIDTH), bird.x)

C3_PassedStep ==
    \A i \in 1..Len(pipes), j \in 1..Len(pipes') :
        (pipes[i].id = pipes'[j].id /\ pipes[i].passed) => pipes'[j].passed

\* C3: the score counts the passed pipes, each once, and no flag is ever cleared
C3_ScoreOncePerPipe == [] C3_ScoreIsPassed /\ [][C3_PassedStep]_vars

\* two pipes have been passed: the first has left the list, the second is still in it
C3_Witness ==
    /\ score = 2
    /\ removedPassed = 1
    /\ \E i \in 1..Len(pipes) : pipes[i].passed

----------------------------------------------------------------------------
(* C4: no step lowers the high score: it stays the value it was or becomes *)
(* a greater number.                                                       *)

C4_HighScoreStep ==
    highScore' = highScore \/ Gt(ToNumber(highScore'), ToNumber(highScore))

\* C4: the high score never decreases
C4_HighScoreMonotonic == [][C4_HighScoreStep]_vars

\* a later round scores below the high score an earlier round set
C4_Witness ==
    /\ highScore = JsNumber(2)
    /\ score = 1
    /\ gameState = "playing"

----------------------------------------------------------------------------
(* C5: the new-high-score flag turns true only in an update in which the   *)
(* score comes to exceed the high score held before it, while it did not   *)
(* before; that update sets the high score to the new score and calls      *)
(* setItem exactly once, with that score; any step that brings the score   *)
(* above the high score with the flag false sets the flag; and the flag    *)
(* turns false only by the restart input in Ended.                         *)

C5_FlagStep ==
    /\ (~isNewHighScore /\ isNewHighScore') =>
          /\ UpdateStep
          /\ ~JsGreater(score, highScore)
          /\ JsGreater(score', highScore)
          /\ highScore' = JsNumber(score')
          /\ setCalls' = <<score'>>
    /\ (~isNewHighScore /\ JsGreater(score', highScore)) => isNewHighScore'
    /\ (isNewHighScore /\ ~isNewHighScore') => (gameState = "gameover" /\ InputStep)

----------------------------------------------------------------------------
(* C6: once the high score has been raised in this process, and as long as *)
(* no setItem has thrown (the loop is still registered), the store holds   *)
(* the high score.                                                         *)

Raised == ~highScore.isString /\ highScore.num >= 1

\* C6: a raised high score is in the store while setItem has not thrown
C6_StoreHoldsHighScore ==
    (Raised /\ rafPending) =>
        (localStorage.present /\ StringToNumber(localStorage.str) = highScore.num)

\* the high score was raised twice in a round, and the store follows
C6_Witness ==
    /\ isNewHighScore
    /\ highScore = JsNumber(2)
    /\ localStorage = Item(<<"2">>)
    /\ rafPending

----------------------------------------------------------------------------
(* C7: the bird's velocity is never greater than MAX_FALL_SPEED (the       *)
(* velocity an update with a NaN elapsed time leaves is NaN, which is not  *)
(* greater than anything).                                                 *)

C7_VelocityCapped == ~Gt(bird.velocity, MAX_FALL_SPEED)

\* the clamp has acted: the bird falls at exactly MAX_FALL_SPEED and the round goes on
C7_Witness ==
    /\ bird.velocity = MAX_FALL_SPEED
    /\ gameState = "playing"

----------------------------------------------------------------------------
(* C8: with no flap and no collision, two sequences of non-negative        *)
(* elapsed times with the same sum leave the bird at the same height, to   *)
(* within a hundredth of a pixel.  Checked under PhysSpec.                 *)

C8_SameSumSameHeight ==
    trial.ta = trial.tb =>
        /\ trial.a.y - trial.b.y <= 1
        /\ trial.b.y - trial.a.y <= 1

----------------------------------------------------------------------------
(* C9: every pipe an update spawns has its topHeight within                *)
(* [80, groundY - PIPE_GAP - 80], groundY being canvas.height - 80 at the  *)
(* time of the spawn.                                                      *)

C9_SpawnStep ==
    \A j \in 1..Len(pipes') :
        (spawned' > spawned /\ pipes'[j].id > spawned) =>
            /\ pipes'[j].topHeight >= Px(80)
            /\ pipes'[j].topHeight <= groundY - PIPE_GAP - Px(80)

\* C9: every spawn leaves the gap between the two 80 px margins
C9_GapWithinMargins == [][C9_SpawnStep]_vars

----------------------------------------------------------------------------
(* C10: an update in which setItem fails (the store does not hold the      *)
(* value last passed to setItem) still leaves the loop registered, the     *)
(* tick complete (every listed pipe left of the bird flagged, no collision *)
(* left standing in phase Active) and the high score at the new value.     *)

SetFailed ==
    /\ setCalls # <<>>
    /\ localStorage # SetItem(setCalls[Len(setCalls)])

\* C10: a failing setItem neither stops the loop nor cuts the tick short
C10_SetFailureNonFatal ==
    SetFailed =>
        /\ rafPending
        /\ highScore = JsNumber(setCalls[Len(setCalls)])
        /\ gameState = "playing" => ~checkCollisions(bird, pipes, groundY)

----------------------------------------------------------------------------
(* C11: an update in phase Active whose elapsed time is NaN (lastTime is   *)
(* still undefined) or negative is treated as an update with elapsed time  *)
(* 0: the bird and every pipe end as update(0) leaves them, and no NaN     *)
(* enters the simulation state.                                            *)

HasNaN(b, ps) ==
    \/ IsNaN(b.y)
    \/ IsNaN(b.velocity)
    \/ \E i \in 1..Len(ps) : IsNaN(ps[i].x)

C11_InvalidElapsedStep ==
    (gameState = "playing" /\ lastTime = "undefined" /\ UpdateStep) =>
        /\ \E r1 \in Randoms, r2 \in Randoms, setOk \in BOOLEAN :
              \E u \in {update(0, r1, r2, setOk)} :
                  /\ bird'.velocity = u.bird.velocity
                  /\ bird'.y = u.bird.y
                  /\ pipes' = u.pipes
        /\ ~HasNaN(bird', pipes')

\* C11: an update with an invalid elapsed time acts as update(0)
C11_InvalidElapsedIsZero == [][C11_InvalidElapsedStep]_vars

----------------------------------------------------------------------------
(* C12: when the store held no value or a malformed (non-numeric) one on   *)
(* load, the high score starts as 0, so the first pipe passed raises the   *)
(* high score to 1 and sets the new-high-score flag.                       *)

\* the high score is still what the load made of an absent or malformed item
LoadedAbsentOrMalformed ==
    \/ highScore = GetItemOrZero(NoItem)
    \/ highScore.isString /\ IsNaN(StringToNumber(highScore.str))

C12_FirstPassStep ==
    (LoadedAbsentOrMalformed /\ score = 0 /\ score' = 1) =>
        /\ highScore' = JsNumber(1)
        /\ isNewHighScore'

\* C12: after an absent or malformed stored value the first pass makes a high score
C12_MalformedLoadsAsZero == [][C12_FirstPassStep]_vars

----------------------------------------------------------------------------
(* C13: a primary input in phase Active sets the velocity to the flap      *)
(* strength and changes nothing else, so a second input before the next    *)
(* update leaves the state of the first; the input in phase Ready does the *)
(* same and moves the phase to Active.                                     *)

C13_FlapStep ==
    /\ (InputStep /\ gameState \in {"start", "playing"}) =>
          /\ gameState' = "playing"
          /\ bird' = [bird EXCEPT !.velocity = FLAP_STRENGTH]
          /\ UNCHANGED <<pipes, score, highScore, isNewHighScore, localStorage,
                         canvas, groundY>>
    /\ (InputStep /\ gameState = "playing" /\ bird.velocity = FLAP_STRENGTH) =>
          UNCHANGED <<gameState, bird>>
    /\ gameState = "playing" =>
          Flap(gameState, Flap(gameState, bird)) = Flap(gameState, bird)

\* C13: the flap sets the velocity, so repeated inputs equal one
C13_FlapIdempotent == [][C13_FlapStep]_vars

\* an input in Active after an update that moved the bird: the rotation is the
\* update's, the velocity is the flap's
C13_Witness ==
    /\ gameState = "playing"
    /\ pipes # <<>>
    /\ bird.velocity = FLAP_STRENGTH
    /\ bird.rotation > 0 - Px(25)

----------------------------------------------------------------------------
(* C14: an update in phase Splash, Ready or Ended, whatever the elapsed    *)
(* time, leaves the bird (position, velocity, rotation), the pipes, the    *)
(* score, the high score, the new-high-score flag and the phase unchanged. *)

C14_IdleUpdateStep ==
    (gameState # "playing" /\ UpdateStep) =>
        UNCHANGED <<bird, pipes, score, highScore, isNewHighScore, gameState,
                    localStorage>>

\* C14: update is a no-op outside phase Active
C14_UpdateOnlyInActive == [][C14_IdleUpdateStep]_vars

\* a frame has passed in phase Splash, which is never entered again, and the
\* state is as loaded
C14_Witness ==
    /\ gameState = "splash"
    /\ lastTime = "number"
    /\ bird = NewBird(canvas)
    /\ pipes = <<>>
    /\ score = 0

----------------------------------------------------------------------------
(* C15: at the end of every update in phase Active, if the phase is still  *)
(* Active then the bird's hitbox (the sprite inset by 5) lies between the  *)
(* screen top and the ground line and is inside the gap of every pipe it   *)
(* overlaps horizontally; otherwise the phase is Ended.                    *)

HitboxClear(b, ps, gY) ==
    LET half == BIRD_SIZE \div 2
        birdLeft == b.x - half + Px(5)
        birdRight == b.x + half - Px(5)
        birdTop == Add(Sub(b.y, half), Px(5))
        birdBottom == Sub(Add(b.y, half), Px(5))
    IN  /\ ~IsNaN(b.y)
        /\ birdTop >= 0
        /\ birdBottom <= gY
        /\ \A i \in 1..Len(ps) :
              /\ ~IsNaN(ps[i].x)
              /\ (birdRight > ps[i].x /\ birdLeft < ps[i].x + PIPE_WIDTH) =>
                    /\ birdTop >= ps[i].topHeight
                    /\ birdBottom <= ps[i].topHeight + PIPE_GAP

C15_CollisionStep ==
    (gameState = "playing" /\ UpdateStep) =>
        /\ gameState' \in {"playing", "gameover"}
        /\ gameState' = "playing" => HitboxClear(bird', pipes', groundY')

\* C15: a collision ends the round in the update that produces it
C15_CollisionEndsRound == [][C15_CollisionStep]_vars

----------------------------------------------------------------------------
(* C16: the boundary check uses the hitbox of the pipe check, the sprite   *)
(* inset by 5: an update in phase Active ends the round exactly when the   *)
(* inset hitbox is below the ground line, above the screen top, or inside  *)
(* the solid part of a pipe it overlaps horizontally.                      *)

InsetHit(b, ps, gY) ==
    LET half == BIRD_SIZE \div 2
        birdLeft == b.x - half + Px(5)
        birdRight == b.x + half - Px(5)
        birdTop == Add(Sub(b.y, half), Px(5))
        birdBottom == Sub(Add(b.y, half), Px(5))
    IN  \/ Gt(birdBottom, gY)
        \/ Lt(birdTop, 0)
        \/ \E i \in 1..Len(ps) :
              /\ Gt(birdRight, ps[i].x)
              /\ Lt(birdLeft, Add(ps[i].x, PIPE_WIDTH))
              /\ \/ Lt(birdTop, ps[i].topHeight)
                 \/ Gt(birdBottom, ps[i].topHeight + PIPE_GAP)

C16_BoundaryStep ==
    (gameState = "playing" /\ UpdateStep) =>
        (gameState' = "gameover" <=> InsetHit(bird', pipes', groundY'))

\* C16: the boundary check and the pipe check use the same inset hitbox
C16_SameInsetHitbox == [][C16_BoundaryStep]_vars

----------------------------------------------------------------------------
(* C17: the pipes are listed in spawn order and by strictly increasing x;  *)
(* an update only removes pipes from the front of the list (the low-x end) *)
(* and appends the ones it spawns at the back, keeping the order of the    *)
(* others.                                                                 *)

C17_Ordered ==
    \A i \in 1..Len(pipes) : \A j \in 1..Len(pipes) :
        i < j => (pipes[i].id < pipes[j].id /\ Lt(pipes[i].x, pipes[j].x))

C17_ListStep ==
    gameState = "playing" =>
        \E k \in 0..Len(pipes) : \E n \in 0..2 :
            /\ Len(pipes') = Len(pipes) - k + n
            /\ \A i \in 1..(Len(pipes) - k) : pipes'[i].id = pipes[k + i].id
            /\ \A i \in (Len(pipes) - k + 1)..Len(pipes') : pipes'[i].id > spawned

\* C17: the pipe list is ordered by x in spawn order, a queue
C17_PipesOrdered == [](C17_Ordered) /\ [][C17_ListStep]_vars

----------------------------------------------------------------------------
(* C18: the first update of a round in phase Active finds the pipe list    *)
(* empty and spawns a pipe at x = 0.65 * width, left of the steady-state   *)
(* spawn position x = width.  As claimed, it is the only pipe that update  *)
(* spawns; as amended, it is the only one unless 0.65 * width is left of   *)
(* width - PIPE_SPACING, and then the same update spawns a second pipe at  *)
(* x = width.  The update scrolls what it spawned.                         *)

FirstPipeX == (canvas.width * 65) \div 100

\* the pipes are the first pipe, and a second one if two, scrolled by one update
FirstSpawn(ps, two) ==
    \E d \in Deltas \cup {NaN} :
        LET scroll == TimesDt(PIPE_SPEED, ClampDelta(d))
        IN  /\ Len(ps) = IF two THEN 2 ELSE 1
            /\ ps[1].x = Sub(FirstPipeX, scroll)
            /\ ps[1].id = 1
            /\ two => (ps[2].x = Sub(canvas.width, scroll) /\ ps[2].id = 2)

C18_OnlyFirstStep ==
    (gameState = "playing" /\ pipes = <<>> /\ UpdateStep) =>
        /\ FirstPipeX < canvas.width
        /\ FirstSpawn(pipes', FALSE)

\* C18 as claimed: the first update spawns the first pipe and no other
C18_FirstSpawnAlone == [][C18_OnlyFirstStep]_vars

C18_FirstTickStep ==
    (gameState = "playing" /\ pipes = <<>> /\ UpdateStep) =>
        /\ FirstPipeX < canvas.width
        /\ FirstSpawn(pipes', FirstPipeX < canvas.width - PIPE_SPACING)

\* C18 as amended: the first update spawns the first pipe, alone unless the window is wide
C18_FirstSpawn == [][C18_FirstTickStep]_vars

\* after the first update of a round on the wide window: two pipes, scrolled once
C18_Witness ==
    /\ gameState = "playing"
    /\ canvas.width = Px(600)
    /\ Len(pipes) = 2
    /\ pipes[1].x = Px(390) - 1920
    /\ pipes[2].x = Px(600) - 1920

----------------------------------------------------------------------------
(* C19: when the store held no value or a non-negative integer on load     *)
(* (the high score then converts to a number), the score never exceeds the *)
(* high score, and while the new-high-score flag is set the high score     *)
(* equals the score.                                                       *)

\* C19: score <= high score, with equality while the flag is set
C19_ScoreWithinHighScore ==
    ~IsNaN(ToNumber(highScore)) =>
        /\ score <= ToNumber(highScore)
        /\ isNewHighScore => ToNumber(highScore) = score

\* a second round has passed a pipe below the high score the first round set
C19_Witness ==
    /\ score = 1
    /\ highScore = JsNumber(2)
    /\ ~isNewHighScore
    /\ gameState = "playing"

----------------------------------------------------------------------------
(* C20: on a window that is not resized and with numeric, non-negative     *)
(* elapsed times, consecutive pipes are more than PIPE_SPACING apart in x, *)
(* and, after the pair the round's first pipe is in, at most PIPE_SPACING  *)
(* plus the scroll of one update at the clamp apart; so pipes do not       *)
(* overlap horizontally and an update raises the score by at most 1.       *)

\* the scroll of one update whose elapsed time is at the clamp of 100 ms
MaxScroll == TimesDt(PIPE_SPEED, ClampDelta(Ms(100)))

C20_Spaced ==
    ~HasNaN(bird, pipes) =>
        \A i \in 1..(Len(pipes) - 1) :
            LET gap == pipes[i + 1].x - pipes[i].x
            IN  /\ gap > PIPE_SPACING
                /\ pipes[i].id > 1 => gap <= PIPE_SPACING + MaxScroll
                /\ pipes[i].x + PIPE_WIDTH < pipes[i + 1].x

C20_ScoreStep == score' <= score + 1

\* C20: pipes keep their spacing and an update scores at most once
C20_PipesSpaced == [](C20_Spaced) /\ [][C20_ScoreStep]_vars

----------------------------------------------------------------------------
(* The game with frames that keep coming: gameLoop registers itself again  *)
(* at the end of every frame, so a frame that is due is eventually run     *)
(* (weak fairness).  Successive timestamps differ by a positive time.  The *)
(* player gives no input in phase Active once the score has reached        *)
(* MaxLiveScore, which keeps the score of a round bounded.                 *)

MaxLiveScore == 1

LiveSizes == { [width |-> Px(400), height |-> Px(400)] }

LiveInit == InitFrom(LiveSizes)

LiveInput ==
    /\ gameState = "playing" => score < MaxLiveScore
    /\ HandleInput

LiveFrame ==
    \E d \in Deltas, r1 \in Randoms, r2 \in Randoms, setOk \in BOOLEAN :
        /\ (UpdateRuns(gameState) /\ lastTime = "number") => d > 0
        /\ Frame(MaxLiveScore + 3, d, r1, r2, setOk)

LiveNext == LiveInput \/ LiveFrame

LiveSpec == LiveInit /\ [][LiveNext]_vars /\ WF_vars(LiveFrame)

\* the score bound of LiveFrame is never met: no frame is held back by it
LiveScoreBelowBound == score < MaxLiveScore + 3

----------------------------------------------------------------------------
(* C21: if from some point on no primary input arrives, while frames with  *)
(* positive elapsed time keep coming, every state in phase Active is       *)
(* followed by one in phase Ended; and the phase leaves Ended only by a    *)
(* primary input.                                                          *)

C21_EndedStep ==
    (gameState = "gameover" /\ gameState' # "gameover") => InputStep

\* C21: without input a round in Active comes to its end, and stays ended
C21_RoundEnds ==
    /\ (<>[][~HandleInput]_vars) =>
          [](gameState = "playing" => <>(gameState = "gameover"))
    /\ [][C21_EndedStep]_vars

====
